---- MODULE Spec2Model ----
(***************************************************************************)
(* A model of app-nerds/configinator: the .env parser (package env), the   *)
(* per-field resolver (package container) and the orchestrator Behold.     *)
(*                                                                         *)
(* Go strings are modelled as sequences of one-character strings, so that  *)
(* splitting, trimming, quoting and parsing are computed character by      *)
(* character as the code computes them.                                    *)
(***************************************************************************)
EXTENDS Integers, Sequences, FiniteSets, TLC

VARIABLES
    \* ---- the process's inputs (chosen in Init, never changed) ----
    fields,      \* the config struct's fields as reflection shows them
    osEnv,       \* the OS environment: variable name -> value ("" when unset)
    dotEnv,      \* the .env file of the working directory
    osArgs,      \* os.Args[1:]
    \* ---- the state of Behold and of the packages it uses ----
    pc,          \* the position of the process in Behold
    calls,       \* the number of Behold calls started so far
    index,       \* Behold's loop variable (1-based)
    envFile,     \* the package-level envFile mapping of configinator
    panicMsg,    \* what the process panicked with, "nil" when it did not
    containers,  \* Behold's containers slice, as far as it is filled
    newErrs,     \* the error each container.New returned (Behold drops it)
    config,      \* the values of the config struct's fields
    flagSet,     \* flag.CommandLine: the parsed mark and the registered flags
    panicAt,     \* the field index a panic was raised for, 0 when none
    \* ---- the state of a stand-alone run of the env package ----
    line,        \* the text handed to parseLine
    lineResult   \* what parseLine returned for it

vars == <<fields, osEnv, dotEnv, osArgs, pc, calls, index, envFile, panicMsg,
          containers, newErrs, config, flagSet, panicAt, line, lineResult>>

beholdVars == <<fields, osEnv, dotEnv, osArgs, pc, calls, index, envFile, panicMsg,
                containers, newErrs, config, flagSet, panicAt>>

(***************************************************************************)
(* The functions of package strings that the code calls.                   *)
(***************************************************************************)

\* unicode.IsSpace on the characters a line can hold
IsSpace(c) == c \in {" ", "\t", "\n", "\r", "\f"}

RECURSIVE TrimLeftSpace(_)
TrimLeftSpace(s) ==
    IF s # <<>> /\ IsSpace(Head(s)) THEN TrimLeftSpace(Tail(s)) ELSE s

RECURSIVE TrimRightSpace(_)
TrimRightSpace(s) ==
    IF s # <<>> /\ IsSpace(s[Len(s)])
    THEN TrimRightSpace(SubSeq(s, 1, Len(s) - 1))
    ELSE s

\* strings.TrimSpace
TrimSpace(s) == TrimRightSpace(TrimLeftSpace(s))

RECURSIVE TrimLeft(_, _)
TrimLeft(s, c) == IF s # <<>> /\ Head(s) = c THEN TrimLeft(Tail(s), c) ELSE s

RECURSIVE TrimRight(_, _)
TrimRight(s, c) ==
    IF s # <<>> /\ s[Len(s)] = c THEN TrimRight(SubSeq(s, 1, Len(s) - 1), c) ELSE s

\* strings.Trim(s, c) for a one-character cutset
Trim(s, c) == TrimRight(TrimLeft(s, c), c)

\* strings.Contains(s, c) for a one-character substring
Contains(s, c) == \E i \in 1..Len(s) : s[i] = c

\* strings.Index(s, c), 1-based; 0 when c does not occur
Index(s, c) ==
    IF Contains(s, c)
    THEN CHOOSE i \in 1..Len(s) : s[i] = c /\ \A j \in 1..(i - 1) : s[j] # c
    ELSE 0

\* strings.Count(s, c)
Count(s, c) == Cardinality({i \in 1..Len(s) : s[i] = c})

\* strings.Split(s, c): one part more than there are separators
RECURSIVE Split(_, _)
Split(s, c) ==
    IF Contains(s, c)
    THEN <<SubSeq(s, 1, Index(s, c) - 1)>>
             \o Split(SubSeq(s, Index(s, c) + 1, Len(s)), c)
    ELSE <<s>>

\* strings.SplitN(s, c, 2): cut at the first separator only
SplitN2(s, c) ==
    IF Contains(s, c)
    THEN <<SubSeq(s, 1, Index(s, c) - 1), SubSeq(s, Index(s, c) + 1, Len(s))>>
    ELSE <<s>>

\* strings.Join(parts, c)
RECURSIVE Join(_, _)
Join(parts, c) ==
    IF parts = <<>> THEN <<>>
    ELSE IF Len(parts) = 1 THEN parts[1]
    ELSE parts[1] \o <<c>> \o Join(Tail(parts), c)

\* strings.HasPrefix
HasPrefix(s, p) == Len(s) >= Len(p) /\ SubSeq(s, 1, Len(p)) = p

\* strings.TrimPrefix
TrimPrefix(s, p) == IF HasPrefix(s, p) THEN SubSeq(s, Len(p) + 1, Len(s)) ELSE s

(***************************************************************************)
(* Package env: the .env parser.                                           *)
(***************************************************************************)

Export == <<"e", "x", "p", "o", "r", "t">>

NoError == "nil"
ErrZeroLength == "zero length line. shouldn't be here!"
ErrSeparate == "trouble separating key from value"

isIgnoredLine(l) ==
    LET trimmed == TrimSpace(l)
    IN  Len(trimmed) = 0 \/ HasPrefix(trimmed, <<"#">>)

\* regexp `\A'(.*)'\z`: '.' does not match a newline
singleQuotesRegex(v) ==
    /\ Len(v) >= 2
    /\ v[1] = "'"
    /\ v[Len(v)] = "'"
    /\ ~Contains(v, "\n")

\* regexp `\A"(.*)"\z`
doubleQuotesRegex(v) ==
    /\ Len(v) >= 2
    /\ v[1] = "\""
    /\ v[Len(v)] = "\""
    /\ ~Contains(v, "\n")

\* escapeRegex.ReplaceAllStringFunc: every `\.` from left to right; \n and \r
\* are expanded, any other pair is put back as it was
RECURSIVE expandEscapes(_)
expandEscapes(s) ==
    IF s = <<>> THEN <<>>
    ELSE IF Head(s) = "\\" /\ Len(s) >= 2 /\ s[2] # "\n"
    THEN (CASE s[2] = "n" -> <<"\n">>
            [] s[2] = "r" -> <<"\r">>
            [] OTHER -> <<"\\", s[2]>>) \o expandEscapes(SubSeq(s, 3, Len(s)))
    ELSE <<Head(s)>> \o expandEscapes(Tail(s))

\* an unescape that does not spare `\$`
RECURSIVE unescapeEvery(_)
unescapeEvery(s) ==
    IF s = <<>> THEN <<>>
    ELSE IF Head(s) = "\\" /\ Len(s) >= 2
    THEN <<s[2]>> \o unescapeEvery(SubSeq(s, 3, Len(s)))
    ELSE <<Head(s)>> \o unescapeEvery(Tail(s))

\* unescapeCharsRegex.ReplaceAllString(value, "$1"): every `\\([^$])` from
\* left to right is replaced by the character after the backslash
RECURSIVE unescapeChars(_)
unescapeChars(s) ==
    IF s = <<>> THEN <<>>
    ELSE IF Head(s) = "\\" /\ Len(s) >= 2 /\ s[2] # "$"
    THEN <<s[2]>> \o unescapeChars(SubSeq(s, 3, Len(s)))
    ELSE <<Head(s)>> \o unescapeChars(Tail(s))

parseValue(raw) ==
    LET value == Trim(raw, " ")
        single == singleQuotesRegex(value)
        double == doubleQuotesRegex(value)
        inner == IF single \/ double THEN SubSeq(value, 2, Len(value) - 1) ELSE value
    IN  IF Len(value) > 1
        THEN IF double THEN unescapeChars(expandEscapes(inner)) ELSE inner
        ELSE value

\* the loop over the '#'-separated parts of a line: the parts that are kept
RECURSIVE keepParts(_, _, _)
keepParts(split, inQuotes, keep) ==
    IF split = <<>> THEN keep
    ELSE LET part == Head(split)
             one == Count(part, "\"") = 1 \/ Count(part, "'") = 1
             inQuotes1 == IF one THEN ~inQuotes ELSE inQuotes
             keep1 == IF one /\ inQuotes THEN Append(keep, part) ELSE keep
             keep2 == IF Len(keep1) = 0 \/ inQuotes1 THEN Append(keep1, part) ELSE keep1
         IN  keepParts(Tail(split), inQuotes1, keep2)

\* the line with its comment cut off
stripComment(l) ==
    IF Contains(l, "#") THEN Join(keepParts(Split(l, "#"), FALSE, <<>>), "#") ELSE l

parseLine(l) ==
    IF Len(l) = 0
    THEN [key |-> <<>>, value |-> <<>>, err |-> ErrZeroLength]
    ELSE LET split == SplitN2(stripComment(l), "=")
         IN  IF Len(split) # 2
             THEN [key |-> <<>>, value |-> <<>>, err |-> ErrSeparate]
             ELSE [key |-> TrimSpace(TrimPrefix(split[1], Export)),
                   value |-> parseValue(split[2]),
                   err |-> NoError]

EmptyMap == [k \in {} |-> <<>>]

\* a loop that passes over a line that does not parse
RECURSIVE parseLinesLenient(_, _)
parseLinesLenient(lines, result) ==
    IF lines = <<>> THEN [map |-> result, err |-> NoError]
    ELSE IF isIgnoredLine(Head(lines)) \/ parseLine(Head(lines)).err # NoError
    THEN parseLinesLenient(Tail(lines), result)
    ELSE parseLinesLenient(Tail(lines),
                           (parseLine(Head(lines)).key :> parseLine(Head(lines)).value)
                               @@ result)

\* the loop of parse over the scanned lines: the mapping so far and the error
RECURSIVE parseLines(_, _)
parseLines(lines, result) ==
    IF lines = <<>> THEN [map |-> result, err |-> NoError]
    ELSE IF isIgnoredLine(Head(lines)) THEN parseLines(Tail(lines), result)
    ELSE LET r == parseLine(Head(lines))
         IN  IF r.err # NoError
             THEN [map |-> result, err |-> r.err]
             ELSE parseLines(Tail(lines), (r.key :> r.value) @@ result)

parse(lines) == parseLines(lines, EmptyMap)

(***************************************************************************)
(* The conversions of packages strconv and time that the container calls.  *)
(* Each returns [ok, v]: ok is "err == nil", v the converted value.        *)
(***************************************************************************)

DigitVal(c) ==
    CASE c = "0" -> 0 [] c = "1" -> 1 [] c = "2" -> 2 [] c = "3" -> 3
      [] c = "4" -> 4 [] c = "5" -> 5 [] c = "6" -> 6 [] c = "7" -> 7
      [] c = "8" -> 8 [] c = "9" -> 9
      [] c \in {"a", "A"} -> 10 [] c \in {"b", "B"} -> 11 [] c \in {"c", "C"} -> 12
      [] c \in {"d", "D"} -> 13 [] c \in {"e", "E"} -> 14 [] c \in {"f", "F"} -> 15
      [] OTHER -> 99

isDigit(s, i) == i <= Len(s) /\ DigitVal(s[i]) < 10

AllDigits(s, base) == s # <<>> /\ \A i \in 1..Len(s) : DigitVal(s[i]) < base

RECURSIVE DigitsValue(_, _)
DigitsValue(s, base) ==
    IF s = <<>> THEN 0
    ELSE DigitsValue(SubSeq(s, 1, Len(s) - 1), base) * base + DigitVal(s[Len(s)])

\* a leading sign cut off: [neg, rest]
CutSign(s) ==
    IF s # <<>> /\ Head(s) \in {"+", "-"}
    THEN [neg |-> Head(s) = "-", rest |-> Tail(s)]
    ELSE [neg |-> FALSE, rest |-> s]

\* strconv.ParseBool
ParseBool(s) ==
    IF s \in {<<"1">>, <<"t">>, <<"T">>, <<"T", "R", "U", "E">>,
              <<"t", "r", "u", "e">>, <<"T", "r", "u", "e">>}
    THEN [ok |-> TRUE, v |-> TRUE]
    ELSE IF s \in {<<"0">>, <<"f">>, <<"F">>, <<"F", "A", "L", "S", "E">>,
                   <<"f", "a", "l", "s", "e">>, <<"F", "a", "l", "s", "e">>}
    THEN [ok |-> TRUE, v |-> FALSE]
    ELSE [ok |-> FALSE, v |-> FALSE]

\* strconv.Atoi: an optional sign and decimal digits
Atoi(s) ==
    LET c == CutSign(s)
    IN  IF AllDigits(c.rest, 10)
        THEN [ok |-> TRUE,
              v |-> IF c.neg THEN 0 - DigitsValue(c.rest, 10) ELSE DigitsValue(c.rest, 10)]
        ELSE [ok |-> FALSE, v |-> 0]

\* strconv.ParseInt(s, 0, strconv.IntSize), as the flag package's int flags
\* call it: the base is taken from the prefix (0x, 0b, 0o, a leading 0)
ParseIntBase0(s) ==
    LET c == CutSign(s)
        r == c.rest
        two == IF Len(r) >= 2 THEN SubSeq(r, 1, 2) ELSE <<>>
        base == IF two \in {<<"0", "x">>, <<"0", "X">>} THEN 16
                ELSE IF two \in {<<"0", "b">>, <<"0", "B">>} THEN 2
                ELSE IF two \in {<<"0", "o">>, <<"0", "O">>} THEN 8
                ELSE IF Len(r) >= 2 /\ r[1] = "0" THEN 8
                ELSE 10
        digits == IF two \in {<<"0", "x">>, <<"0", "X">>, <<"0", "b">>, <<"0", "B">>,
                              <<"0", "o">>, <<"0", "O">>}
                  THEN SubSeq(r, 3, Len(r)) ELSE r
    IN  IF AllDigits(digits, base)
        THEN [ok |-> TRUE,
              v |-> IF c.neg THEN 0 - DigitsValue(digits, base)
                    ELSE DigitsValue(digits, base)]
        ELSE [ok |-> FALSE, v |-> 0]

\* A float64 is [kind, neg, mant, exp]: mant * 10^exp with mant not a multiple
\* of 10, or a NaN, or an infinity. Zero is [num, FALSE, 0, 0] whatever its sign,
\* as Go's == and != do not tell -0 from 0.
FloatZero == [kind |-> "num", neg |-> FALSE, mant |-> 0, exp |-> 0]
FloatNaN == [kind |-> "nan", neg |-> FALSE, mant |-> 0, exp |-> 0]
FloatInf(neg) == [kind |-> "inf", neg |-> neg, mant |-> 0, exp |-> 0]

RECURSIVE FloatNorm(_, _, _)
FloatNorm(neg, mant, exp) ==
    IF mant = 0 THEN FloatZero
    ELSE IF mant % 10 = 0 THEN FloatNorm(neg, mant \div 10, exp + 1)
    ELSE [kind |-> "num", neg |-> neg, mant |-> mant, exp |-> exp]

ToLowerChar(c) ==
    CASE c = "N" -> "n" [] c = "A" -> "a" [] c = "I" -> "i" [] c = "F" -> "f"
      [] c = "T" -> "t" [] c = "Y" -> "y" [] OTHER -> c

\* strconv.ParseFloat(s, 64) on decimal text: [sign] digits [. digits]
\* [e [sign] digits], or inf, infinity, nan in either case
ParseFloat(s) ==
    LET c == CutSign(s)
        r == c.rest
        low == [i \in 1..Len(r) |-> ToLowerChar(r[i])]
        ePos == IF Contains(low, "e") THEN Index(low, "e") ELSE Len(r) + 1
        body == SubSeq(r, 1, ePos - 1)
        expo == SubSeq(r, ePos + 1, Len(r))
        dot == IF Contains(body, ".") THEN Index(body, ".") ELSE Len(body) + 1
        whole == SubSeq(body, 1, dot - 1)
        frac == SubSeq(body, dot + 1, Len(body))
        ec == CutSign(expo)
        digitsOK == /\ whole \o frac # <<>>
                    /\ \A i \in 1..Len(whole) : isDigit(whole, i)
                    /\ \A i \in 1..Len(frac) : isDigit(frac, i)
        expOK == ePos > Len(r) \/ AllDigits(ec.rest, 10)
        e == IF ePos > Len(r) THEN 0
             ELSE IF ec.neg THEN 0 - DigitsValue(ec.rest, 10)
             ELSE DigitsValue(ec.rest, 10)
    IN  IF low \in {<<"i", "n", "f">>, <<"i", "n", "f", "i", "n", "i", "t", "y">>}
        THEN [ok |-> TRUE, v |-> FloatInf(c.neg)]
        ELSE IF low = <<"n", "a", "n">> /\ r = s
        THEN [ok |-> TRUE, v |-> FloatNaN]
        ELSE IF digitsOK /\ expOK
        THEN [ok |-> TRUE,
              v |-> FloatNorm(c.neg, DigitsValue(whole \o frac, 10), e - Len(frac))]
        ELSE [ok |-> FALSE, v |-> FloatZero]

\* Go's != on float64: a NaN differs from everything, itself included
FloatNeq(a, b) == a.kind = "nan" \/ b.kind = "nan" \/ a # b

(***************************************************************************)
(* time.Parse for the layouts of timeFormats. A layout is a sequence of    *)
(* chunks: the reference-time elements "2006", "01", "02", "15", "04",     *)
(* "05", "MST", "-0700", and literal characters.                           *)
(***************************************************************************)

\* A time.Time: the wall-clock reading and the zone it was read in
ZoneUTC == [name |-> <<"U", "T", "C">>, offset |-> 0]

ZeroTime == [year |-> 1, month |-> 1, day |-> 1, hour |-> 0, min |-> 0, sec |-> 0,
             frac |-> <<>>, zone |-> ZoneUTC]

timeFormats == <<
    <<"2006", "-", "01", "-", "02">>,
    <<"2006", "-", "01", "-", "02", " ", "15", ":", "04", ":", "05">>,
    <<"2006", "-", "01", "-", "02", "T", "15", ":", "04", ":", "05">>,
    <<"2006", "-", "01", "-", "02", "T", "15", ":", "04", ":", "05", "Z">>,
    <<"2006", "-", "01", "-", "02", "T", "15", ":", "04", ":", "05", " ", "MST">>,
    <<"2006", "-", "01", "-", "02", "T", "15", ":", "04", ":", "05", "-0700">> >>

IsUpper(c) ==
    c \in {"A", "B", "C", "D", "E", "F", "G", "H", "I", "J", "K", "L", "M",
           "N", "O", "P", "Q", "R", "S", "T", "U", "V", "W", "X", "Y", "Z"}

\* the number of leading upper-case letters, counted up to 6
RECURSIVE UpperRun(_, _)
UpperRun(s, n) ==
    IF n < 6 /\ s # <<>> /\ IsUpper(Head(s)) THEN UpperRun(Tail(s), n + 1) ELSE n

\* the number of leading digits
RECURSIVE DigitRun(_)
DigitRun(s) == IF s # <<>> /\ isDigit(s, 1) THEN 1 + DigitRun(Tail(s)) ELSE 0

isLeap(year) == year % 4 = 0 /\ (year % 100 # 0 \/ year % 400 = 0)

daysIn(month, year) ==
    IF month = 2 THEN (IF isLeap(year) THEN 29 ELSE 28)
    ELSE IF month \in {4, 6, 9, 11} THEN 30
    ELSE 31

\* getnum(value, fixed): one or two leading digits; [ok, n, rest]
getnum(value, fixed) ==
    IF ~isDigit(value, 1) THEN [ok |-> FALSE, n |-> 0, rest |-> value]
    ELSE IF ~isDigit(value, 2)
    THEN IF fixed THEN [ok |-> FALSE, n |-> 0, rest |-> value]
         ELSE [ok |-> TRUE, n |-> DigitVal(value[1]), rest |-> Tail(value)]
    ELSE [ok |-> TRUE, n |-> DigitsValue(SubSeq(value, 1, 2), 10),
          rest |-> SubSeq(value, 3, Len(value))]

\* the fraction of a second that may follow the seconds in the value although
\* the layout names none: its length, separator included (0 when there is none)
fracLen(value) ==
    IF Len(value) >= 2 /\ value[1] \in {".", ","} /\ isDigit(value, 2)
    THEN 1 + DigitRun(Tail(value))
    ELSE 0

\* the chunks of the layout matched against the value from left to right;
\* t is the time read so far
RECURSIVE parseChunks(_, _, _)
parseChunks(layout, value, t) ==
    IF layout = <<>>
    THEN [ok |-> value = <<>> /\ t.day >= 1 /\ t.day <= daysIn(t.month, t.year), v |-> t]
    ELSE LET std == Head(layout)
             rest == Tail(layout)
             fail == [ok |-> FALSE, v |-> ZeroTime]
         IN  CASE std = "2006" ->
                    IF Len(value) >= 4 /\ AllDigits(SubSeq(value, 1, 4), 10)
                    THEN parseChunks(rest, SubSeq(value, 5, Len(value)),
                             [t EXCEPT !.year = DigitsValue(SubSeq(value, 1, 4), 10)])
                    ELSE fail
               [] std = "01" ->
                    LET g == getnum(value, TRUE)
                    IN  IF g.ok /\ g.n >= 1 /\ g.n <= 12
                        THEN parseChunks(rest, g.rest, [t EXCEPT !.month = g.n])
                        ELSE fail
               [] std = "02" ->
                    LET g == getnum(value, TRUE)
                    IN  IF g.ok
                        THEN parseChunks(rest, g.rest, [t EXCEPT !.day = g.n])
                        ELSE fail
               [] std = "15" ->
                    LET g == getnum(value, FALSE)
                    IN  IF g.ok /\ g.n < 24
                        THEN parseChunks(rest, g.rest, [t EXCEPT !.hour = g.n])
                        ELSE fail
               [] std = "04" ->
                    LET g == getnum(value, TRUE)
                    IN  IF g.ok /\ g.n < 60
                        THEN parseChunks(rest, g.rest, [t EXCEPT !.min = g.n])
                        ELSE fail
               [] std = "05" ->
                    LET g == getnum(value, TRUE)
                        n == fracLen(g.rest)
                    IN  IF g.ok /\ g.n < 60
                        THEN parseChunks(rest, SubSeq(g.rest, n + 1, Len(g.rest)),
                                 [t EXCEPT !.sec = g.n,
                                           !.frac = TrimRight(SubSeq(g.rest, 2, n), "0")])
                        ELSE fail
               [] std = "MST" ->
                    LET u == UpperRun(value, 0)
                        n == IF u = 3 THEN 3
                             ELSE IF u \in {4, 5} /\ value[u] = "T" THEN u
                             ELSE 0
                        m == IF HasPrefix(value, ZoneUTC.name) THEN 3 ELSE n
                    IN  IF m > 0
                        THEN parseChunks(rest, SubSeq(value, m + 1, Len(value)),
                                 [t EXCEPT !.zone = [name |-> SubSeq(value, 1, m),
                                                     offset |-> 0]])
                        ELSE fail
               [] std = "-0700" ->
                    IF /\ Len(value) >= 5
                       /\ value[1] \in {"+", "-"}
                       /\ AllDigits(SubSeq(value, 2, 5), 10)
                       /\ DigitsValue(SubSeq(value, 2, 3), 10) <= 24
                       /\ DigitsValue(SubSeq(value, 4, 5), 10) < 60
                    THEN LET secs == DigitsValue(SubSeq(value, 2, 3), 10) * 3600
                                       + DigitsValue(SubSeq(value, 4, 5), 10) * 60
                         IN  parseChunks(rest, SubSeq(value, 6, Len(value)),
                                 [t EXCEPT !.zone =
                                     [name |-> <<>>,
                                      offset |-> IF value[1] = "-" THEN 0 - secs ELSE secs]])
                    ELSE fail
               [] OTHER ->
                    IF value # <<>> /\ Head(value) = std
                    THEN parseChunks(rest, Tail(value), t)
                    ELSE fail

\* time.Parse(layout, value)
TimeParse(layout, value) == parseChunks(layout, value, ZeroTime)

(***************************************************************************)
(* Package container: the resolver of one field.                           *)
(*                                                                         *)
(* A Container is a record. fieldValid says whether fieldValue was set     *)
(* (New returns before it is, when it returns an error); boolValue,        *)
(* floatValue, intValue, stringValue and timeValue are pointers into the   *)
(* flag set: nil, or the name of the flag whose value they point to.       *)
(***************************************************************************)

ErrNoFlagName == "no flag name"
ErrCantSet == "can't set private fields"
PanicRedefined == "flag redefined"
PanicZeroValue == "reflect: call of reflect.Value.Set on zero Value"
PanicOpen == "open .env: permission denied"

NilPtr == [nil |-> TRUE, flag |-> <<>>]
PtrTo(name) == [nil |-> FALSE, flag |-> name]

\* the type's name taken as it is written
ToLowerNot(typeName) == typeName

\* strings.ToLower on the type names reflection gives
ToLower(typeName) == IF typeName = "time.Time" THEN "time.time" ELSE typeName

\* os.Getenv
Getenv(name) == IF name \in DOMAIN osEnv THEN osEnv[name] ELSE <<>>

\* the value a flag pointer points to
Deref(ptr) == flagSet.formal[ptr.flag].value

IsBool(c) == c.fieldType = "bool"
IsFloat(c) == c.fieldType = "float64"
IsInt(c) == c.fieldType = "int"
IsString(c) == c.fieldType = "string"
IsTime(c) == c.fieldType = "time.time"

isTime(value) ==
    \E f \in 1..Len(timeFormats) : TimeParse(timeFormats[f], value).ok

parseTime(value) ==
    IF isTime(value)
    THEN LET f == CHOOSE f \in 1..Len(timeFormats) :
                      /\ TimeParse(timeFormats[f], value).ok
                      /\ \A g \in 1..(f - 1) : ~TimeParse(timeFormats[g], value).ok
         IN  TimeParse(timeFormats[f], value).v
    ELSE ZeroTime

defaultValueToBool(c) ==
    IF ParseBool(c.defaultValue).ok THEN ParseBool(c.defaultValue).v ELSE FALSE

defaultValueToFloat(c) ==
    IF ParseFloat(c.defaultValue).ok THEN ParseFloat(c.defaultValue).v ELSE FloatZero

defaultValueToInt(c) ==
    IF Atoi(c.defaultValue).ok THEN Atoi(c.defaultValue).v ELSE 0

defaultValueToString(c) == c.defaultValue

defaultValueToTime(c) ==
    IF ~isTime(c.defaultValue) THEN ZeroTime ELSE parseTime(c.defaultValue)

EnvBool(c) ==
    LET value == Getenv(c.envName)
    IN  IF value # <<>> /\ ParseBool(value).ok
        THEN [v |-> ParseBool(value).v, ok |-> TRUE]
        ELSE [v |-> FALSE, ok |-> FALSE]

EnvFloat(c) ==
    LET value == Getenv(c.envName)
    IN  IF value # <<>> /\ ParseFloat(value).ok
        THEN [v |-> ParseFloat(value).v, ok |-> TRUE]
        ELSE [v |-> FloatZero, ok |-> FALSE]

EnvInt(c) ==
    LET value == Getenv(c.envName)
    IN  IF value # <<>> /\ Atoi(value).ok
        THEN [v |-> Atoi(value).v, ok |-> TRUE]
        ELSE [v |-> 0, ok |-> FALSE]

EnvString(c) ==
    LET value == Getenv(c.envName)
    IN  IF value # <<>> THEN [v |-> value, ok |-> TRUE] ELSE [v |-> value, ok |-> FALSE]

EnvTime(c) ==
    LET value == Getenv(c.envName)
    IN  IF value # <<>>
        THEN [v |-> parseTime(value), ok |-> TRUE]
        ELSE [v |-> ZeroTime, ok |-> FALSE]

EnvFileBool(c) ==
    IF c.envName \in DOMAIN c.envFile /\ ParseBool(c.envFile[c.envName]).ok
    THEN [v |-> ParseBool(c.envFile[c.envName]).v, ok |-> TRUE]
    ELSE [v |-> FALSE, ok |-> FALSE]

EnvFileFloat(c) ==
    IF c.envName \in DOMAIN c.envFile /\ ParseFloat(c.envFile[c.envName]).ok
    THEN [v |-> ParseFloat(c.envFile[c.envName]).v, ok |-> TRUE]
    ELSE [v |-> FloatZero, ok |-> FALSE]

EnvFileInt(c) ==
    IF c.envName \in DOMAIN c.envFile /\ Atoi(c.envFile[c.envName]).ok
    THEN [v |-> Atoi(c.envFile[c.envName]).v, ok |-> TRUE]
    ELSE [v |-> 0, ok |-> FALSE]

\* an EnvFileString that takes an empty entry for a missing one
EnvFileStringNonEmpty(c) ==
    IF c.envName \in DOMAIN c.envFile /\ c.envFile[c.envName] # <<>>
    THEN [v |-> c.envFile[c.envName], ok |-> TRUE]
    ELSE [v |-> <<>>, ok |-> FALSE]

EnvFileString(c) ==
    IF c.envName \in DOMAIN c.envFile
    THEN [v |-> c.envFile[c.envName], ok |-> TRUE]
    ELSE [v |-> <<>>, ok |-> FALSE]

EnvFileTime(c) ==
    IF c.envName \in DOMAIN c.envFile
    THEN [v |-> parseTime(c.envFile[c.envName]), ok |-> TRUE]
    ELSE [v |-> ZeroTime, ok |-> FALSE]

FlagBool(c) ==
    IF ~c.boolValue.nil /\ Deref(c.boolValue) # defaultValueToBool(c)
    THEN [v |-> Deref(c.boolValue), ok |-> TRUE]
    ELSE [v |-> FALSE, ok |-> FALSE]

FlagFloat(c) ==
    IF ~c.floatValue.nil /\ FloatNeq(Deref(c.floatValue), defaultValueToFloat(c))
    THEN [v |-> Deref(c.floatValue), ok |-> TRUE]
    ELSE [v |-> FloatZero, ok |-> FALSE]

FlagInt(c) ==
    IF ~c.intValue.nil /\ Deref(c.intValue) # defaultValueToInt(c)
    THEN [v |-> Deref(c.intValue), ok |-> TRUE]
    ELSE [v |-> 0, ok |-> FALSE]

FlagString(c) ==
    IF ~c.stringValue.nil /\ Deref(c.stringValue) # defaultValueToString(c)
    THEN [v |-> Deref(c.stringValue), ok |-> TRUE]
    ELSE [v |-> <<>>, ok |-> FALSE]

\* FlagTime on the parsed timestamps
FlagTimeParsed(c) ==
    IF ~c.timeValue.nil /\ parseTime(Deref(c.timeValue)) # defaultValueToTime(c)
    THEN [v |-> parseTime(Deref(c.timeValue)), ok |-> TRUE]
    ELSE [v |-> ZeroTime, ok |-> FALSE]

FlagTime(c) ==
    IF ~c.timeValue.nil /\ Deref(c.timeValue) # c.defaultValue
    THEN [v |-> parseTime(Deref(c.timeValue)), ok |-> TRUE]
    ELSE [v |-> ZeroTime, ok |-> FALSE]

\* reflect.Value.Set* through the container's fieldValue: the config struct's
\* values after the write. (Through a zero reflect.Value, which is what a
\* container has that New returned with an error, the call panics instead:
\* see setPanics.)
fieldValueSet(c, cfg, value) == [cfg EXCEPT ![c.index] = value]

setPanics(c) == ~c.fieldValid

SetConfigBool(c, cfg, value) == fieldValueSet(c, cfg, value)
SetConfigFloat(c, cfg, value) == fieldValueSet(c, cfg, value)
SetConfigInt(c, cfg, value) == fieldValueSet(c, cfg, value)
SetConfigString(c, cfg, value) == fieldValueSet(c, cfg, value)
SetConfigTime(c, cfg, value) == fieldValueSet(c, cfg, value)

\* New without the write of the default
SetDefaultValueSkipped(c, cfg) == cfg

\* the type predicates exclude one another, so the code's sequence of ifs is
\* a choice of one branch
SetDefaultValueOnConfig(c, cfg) ==
    IF IsBool(c) THEN SetConfigBool(c, cfg, defaultValueToBool(c))
    ELSE IF IsFloat(c) THEN SetConfigFloat(c, cfg, defaultValueToFloat(c))
    ELSE IF IsInt(c) THEN SetConfigInt(c, cfg, defaultValueToInt(c))
    ELSE IF IsString(c) THEN SetConfigString(c, cfg, defaultValueToString(c))
    ELSE IF IsTime(c) THEN SetConfigTime(c, cfg, defaultValueToTime(c))
    ELSE cfg

\* flag.Bool, flag.Float64, flag.Int, flag.String: a new flag of the set fs;
\* defining a name twice panics
flagVar(fs, name, kind, value) ==
    IF name \in DOMAIN fs.formal
    THEN [fs |-> fs, panic |-> PanicRedefined]
    ELSE [fs |-> [parsed |-> fs.parsed,
                  formal |-> (name :> [kind |-> kind, value |-> value]) @@ fs.formal],
          panic |-> NoError]

\* an addFlag that registers nothing
addFlagNothing(c, fs) == [c |-> c, fs |-> fs, panic |-> NoError]

\* addFlag: [c, fs, panic]
addFlag(c, fs) ==
    IF IsBool(c)
    THEN LET r == flagVar(fs, c.flagName, "bool", defaultValueToBool(c))
         IN  [c |-> [c EXCEPT !.boolValue = PtrTo(c.flagName)], fs |-> r.fs, panic |-> r.panic]
    ELSE IF IsFloat(c)
    THEN LET r == flagVar(fs, c.flagName, "float64", defaultValueToFloat(c))
         IN  [c |-> [c EXCEPT !.floatValue = PtrTo(c.flagName)], fs |-> r.fs, panic |-> r.panic]
    ELSE IF IsInt(c)
    THEN LET r == flagVar(fs, c.flagName, "int", defaultValueToInt(c))
         IN  [c |-> [c EXCEPT !.intValue = PtrTo(c.flagName)], fs |-> r.fs, panic |-> r.panic]
    ELSE IF IsString(c)
    THEN LET r == flagVar(fs, c.flagName, "string", defaultValueToString(c))
         IN  [c |-> [c EXCEPT !.stringValue = PtrTo(c.flagName)], fs |-> r.fs, panic |-> r.panic]
    ELSE IF IsTime(c)
    THEN LET r == flagVar(fs, c.flagName, "string", defaultValueToString(c))
         IN  [c |-> [c EXCEPT !.timeValue = PtrTo(c.flagName)], fs |-> r.fs, panic |-> r.panic]
    ELSE [c |-> c, fs |-> fs, panic |-> NoError]

\* the writability check of New
canSet(i) == fields[i].canSet

\* New's checks with the flag tag looked up first
newErrorFlagFirst(writable, hasFlag) ==
    IF ~hasFlag THEN ErrNoFlagName
    ELSE IF ~writable THEN ErrCantSet
    ELSE NoError

\* which error New returns for a field that is or is not writable and has or
\* has not a flag tag
newError(writable, hasFlag) ==
    IF ~writable THEN ErrCantSet
    ELSE IF ~hasFlag THEN ErrNoFlagName
    ELSE NoError

\* container.New(config, index, envFile): [c, err, config, fs, panic]
New(cfg, i, ef) ==
    LET f == fields[i]
        result == [index |-> i, fieldType |-> ToLower(f.type), envFile |-> ef,
                   fieldValid |-> FALSE, flagName |-> <<>>, envName |-> <<>>,
                   defaultValue |-> <<>>,
                   boolValue |-> NilPtr, floatValue |-> NilPtr, intValue |-> NilPtr,
                   stringValue |-> NilPtr, timeValue |-> NilPtr]
        err == newError(canSet(i), f.hasFlag)
        c1 == [result EXCEPT !.fieldValid = TRUE, !.flagName = f.flag,
                             !.envName = f.env, !.defaultValue = f.default]
        \* addFlag sets the flag pointer only; SetDefaultValueOnConfig, which the
        \* code calls on the container after it, does not read that pointer
        a == IF ~flagSet.parsed THEN addFlag(c1, flagSet)
             ELSE [c |-> c1, fs |-> flagSet, panic |-> NoError]
    IN  IF err = ErrCantSet
        THEN [c |-> result, err |-> err, config |-> cfg, fs |-> flagSet, panic |-> NoError]
        ELSE IF err = ErrNoFlagName
        THEN [c |-> [result EXCEPT !.flagName = f.flag], err |-> err, config |-> cfg,
              fs |-> flagSet, panic |-> NoError]
        ELSE [c |-> a.c, err |-> NoError, config |-> SetDefaultValueOnConfig(c1, cfg),
              fs |-> a.fs, panic |-> a.panic]

(***************************************************************************)
(* Package flag, as Behold uses it: flag.Parse over os.Args[1:]. An        *)
(* argument is [isFlag, name, value]: -name=value, or a non-flag argument, *)
(* at which parsing stops.                                                 *)
(***************************************************************************)

\* Value.Set of a registered flag: [ok, v]
flagSetValue(kind, text) ==
    CASE kind = "bool" -> ParseBool(text)
      [] kind = "int" -> ParseIntBase0(text)
      [] kind = "float64" -> ParseFloat(text)
      [] OTHER -> [ok |-> TRUE, v |-> text]

\* [fs, ok]: ok is false where the flag package calls os.Exit(2)
RECURSIVE flagParseArgs(_, _)
flagParseArgs(fs, args) ==
    IF args = <<>> \/ ~Head(args).isFlag THEN [fs |-> fs, ok |-> TRUE]
    ELSE LET a == Head(args)
         IN  IF a.name \notin DOMAIN fs.formal THEN [fs |-> fs, ok |-> FALSE]
             ELSE LET r == flagSetValue(fs.formal[a.name].kind, a.value)
                  IN  IF ~r.ok THEN [fs |-> fs, ok |-> FALSE]
                      ELSE flagParseArgs(
                               [fs EXCEPT !.formal[a.name].value = r.v], Tail(args))

flagParse(fs, args) == flagParseArgs([fs EXCEPT !.parsed = TRUE], args)

(***************************************************************************)
(* Package env: ReadFile and FileExists over the .env file, which is       *)
(* [exists, readable, lines].                                              *)
(***************************************************************************)

\* a check that finds a file whether or not there is one
FileExistsAlways(file) == TRUE

FileExists(file) == file.exists

ReadFile(file) ==
    IF ~file.readable THEN [map |-> EmptyMap, err |-> PanicOpen] ELSE parse(file.lines)

\* the bounds of the model
MaxCalls == 2      \* Behold calls in one process
NumFields == 2     \* fields of the config struct
MaxBody == 4       \* characters after "K=" in a line handed to parseLine
MaxValue == 5      \* characters after "K=" in a line whose value holds escapes
MaxKeyParts == 2   \* parts (a letter, '_', a space, the word export) of a key

(***************************************************************************)
(* Package configinator: Behold.                                           *)
(***************************************************************************)

NumField == Len(fields)

\* the accessor results that were found, in the order they were asked
Found(results) == SelectSeq(results, LAMBDA r : r.ok)

\* the loop body with the flag asked first
resolveIntFlagFirst(c) == Found(<<FlagInt(c), EnvInt(c), EnvFileInt(c)>>)

\* the body of the resolution loop for one container: the values it writes to
\* the field, in order (environment, then .env entry, then flag, each written
\* when found)
resolveBool(c) == Found(<<EnvBool(c), EnvFileBool(c), FlagBool(c)>>)
resolveFloat(c) == Found(<<EnvFloat(c), EnvFileFloat(c), FlagFloat(c)>>)
resolveInt(c) == Found(<<EnvInt(c), EnvFileInt(c), FlagInt(c)>>)
resolveString(c) == Found(<<EnvString(c), EnvFileString(c), FlagString(c)>>)

resolveField(c) ==
    IF IsBool(c) THEN resolveBool(c)
    ELSE IF IsFloat(c) THEN resolveFloat(c)
    ELSE IF IsInt(c) THEN resolveInt(c)
    ELSE IF IsString(c) THEN resolveString(c)
    ELSE <<>>

\* the writes made one after the other
RECURSIVE applyWrites(_, _, _)
applyWrites(c, cfg, writes) ==
    IF writes = <<>> THEN cfg
    ELSE applyWrites(c, fieldValueSet(c, cfg, Head(writes).v), Tail(writes))

\* Behold is entered: the .env file is loaded when there is one
BeholdEnter ==
    /\ pc \in {"idle", "returned"}
    /\ calls < MaxCalls
    /\ calls' = calls + 1
    /\ containers' = <<>>
    /\ newErrs' = <<>>
    /\ index' = 1
    /\ IF FileExists(dotEnv)
       THEN /\ envFile' = ReadFile(dotEnv).map
            /\ panicMsg' = ReadFile(dotEnv).err
            /\ pc' = IF ReadFile(dotEnv).err # NoError THEN "panic" ELSE "new"
       ELSE /\ envFile' = EmptyMap
            /\ panicMsg' = NoError
            /\ pc' = "new"
    /\ UNCHANGED <<fields, osEnv, dotEnv, osArgs, config, flagSet, panicAt,
                   line, lineResult>>

\* one pass of the first loop: a container is made for the field at index,
\* and the error New returns is dropped
BeholdNew ==
    /\ pc = "new"
    /\ \E r \in {New(config, index, envFile)} :
           IF r.panic # NoError
           THEN /\ pc' = "panic"
                /\ panicMsg' = r.panic
                /\ panicAt' = index
                /\ UNCHANGED <<containers, newErrs, config, flagSet, index>>
           ELSE /\ containers' = Append(containers, r.c)
                /\ newErrs' = Append(newErrs, r.err)
                /\ config' = r.config
                /\ flagSet' = r.fs
                /\ pc' = IF index < NumField THEN "new" ELSE "parse"
                /\ index' = IF index < NumField THEN index + 1 ELSE 1
                /\ UNCHANGED <<panicMsg, panicAt>>
    /\ UNCHANGED <<fields, osEnv, dotEnv, osArgs, calls, envFile, line, lineResult>>

\* the flags are parsed when the command line has arguments
BeholdParse ==
    /\ pc = "parse"
    /\ IF Len(osArgs) > 0
       THEN /\ flagSet' = flagParse(flagSet, osArgs).fs
            /\ pc' = IF flagParse(flagSet, osArgs).ok THEN "resolve" ELSE "exit"
       ELSE /\ flagSet' = flagSet
            /\ pc' = "resolve"
    /\ UNCHANGED <<fields, osEnv, dotEnv, osArgs, calls, index, envFile, panicMsg,
                   containers, newErrs, config, panicAt, line, lineResult>>

\* one pass of the second loop: the field at index is resolved
BeholdResolve ==
    /\ pc = "resolve"
    /\ IF resolveField(containers[index]) # <<>> /\ setPanics(containers[index])
       THEN /\ pc' = "panic"
            /\ panicMsg' = PanicZeroValue
            /\ panicAt' = index
            /\ UNCHANGED <<config, index>>
       ELSE /\ config' = applyWrites(containers[index], config,
                                     resolveField(containers[index]))
            /\ pc' = IF index < NumField THEN "resolve" ELSE "returned"
            /\ index' = IF index < NumField THEN index + 1 ELSE 1
            /\ UNCHANGED <<panicMsg, panicAt>>
    /\ UNCHANGED <<fields, osEnv, dotEnv, osArgs, calls, envFile, containers, newErrs,
                   flagSet, line, lineResult>>

(***************************************************************************)
(* The inputs the model is run on. The config struct has one field under   *)
(* study, of any type and kind, at any position, and well-formed string    *)
(* fields around it. The field under study has flag "f" and variable "V";  *)
(* the others have flags "g1", "g2", ... and share variable "W".           *)
(***************************************************************************)

GoTypes == {"bool", "int", "float64", "string", "time.Time", "int64"}

\* per type: two texts a and a2 of one value, a text b of another value, and
\* a text that does not parse (for a string, a2 is the empty string)
Texts(type) ==
    CASE type = "bool" ->
            [a |-> <<"1">>, a2 |-> <<"t", "r", "u", "e">>, b |-> <<"0">>, bad |-> <<"x">>]
      [] type = "float64" ->
            [a |-> <<"1">>, a2 |-> <<"1", ".", "0">>, b |-> <<"N", "a", "N">>, bad |-> <<"x">>]
      [] type = "string" ->
            [a |-> <<"a">>, a2 |-> <<>>, b |-> <<"b">>, bad |-> <<"x">>]
      [] type = "time.Time" ->
            [a |-> <<"2", "0", "0", "6", "-", "0", "1", "-", "0", "2">>,
             a2 |-> <<"2", "0", "0", "6", "-", "0", "1", "-", "0", "2", " ", "0", "0", ":", "0", "0", ":", "0", "0">>,
             b |-> <<"2", "0", "0", "6", "-", "0", "1", "-", "0", "2", "T", "1", "5", ":", "0", "4", ":", "0", "5", "Z">>,
             bad |-> <<"x">>]
      [] OTHER ->
            [a |-> <<"1">>, a2 |-> <<"0", "1">>, b |-> <<"2">>, bad |-> <<"x">>]

FlagF == <<"f">>
EnvV == <<"V">>
EnvW == <<"W">>

DigitChar(i) == <<"0", "1", "2", "3", "4", "5", "6", "7", "8", "9">>[i + 1]

\* a well-formed string field
Filler(i) ==
    [type |-> "string", canSet |-> TRUE, hasFlag |-> TRUE,
     flag |-> <<"g", DigitChar(i)>>, env |-> EnvW, default |-> <<"d">>]

\* the field under study: exported with a flag tag ("ok"), unexported, without
\* a flag tag, or both unexported and without a flag tag ("bare")
RefusedKinds == {"unexported", "noflag", "bare"}

Focus(type, kind, default) ==
    [type |-> type,
     canSet |-> kind \in {"ok", "noflag"},
     hasFlag |-> kind \in {"ok", "unexported"},
     flag |-> IF kind \in {"ok", "unexported"} THEN FlagF ELSE <<>>,
     env |-> EnvV, default |-> default]

NoFile == [exists |-> FALSE, readable |-> FALSE, lines |-> <<>>]
LockedFile == [exists |-> TRUE, readable |-> FALSE, lines |-> <<>>]
File(lines) == [exists |-> TRUE, readable |-> TRUE, lines |-> lines]

Entry(key, text) == key \o <<"=">> \o text

Files(type) ==
    {NoFile, LockedFile, File(<<EnvV>>), File(<<Entry(EnvW, <<"z">>), EnvV>>),
     File(<<Entry(<<>>, Texts(type).b)>>),
     File(<<Entry(EnvW, <<"z">>), EnvV, Entry(EnvV, Texts(type).b)>>),
     File(<<<<"#", "c">>, <<" ">>, Entry(EnvV, Texts(type).a)>>),
     File(<<Entry(EnvV, <<>>)>>)}
        \cup {File(<<Entry(EnvV, Texts(type)[k])>>) : k \in {"a", "a2", "b", "bad"}}

FlagArg(name, text) == [isFlag |-> TRUE, name |-> name, value |-> text]
OtherArg == [isFlag |-> FALSE, name |-> <<>>, value |-> <<"-">>]

Args(type) ==
    {<<>>, <<OtherArg>>}
        \cup {<<FlagArg(FlagF, Texts(type)[k])>> : k \in {"a", "a2", "b", "bad"}}

\* what is tried on a field that New refuses
FewFiles(type) == {NoFile, File(<<Entry(EnvV, Texts(type).b)>>),
                   File(<<Entry(<<>>, Texts(type).b)>>)}
FewArgs(type) == {<<>>, <<OtherArg>>, <<FlagArg(FlagF, Texts(type).b)>>}

OkScenarios(ty) ==
    {[type |-> ty, kind |-> "ok", default |-> Texts(ty)[d], env |-> e, file |-> fl,
      args |-> ar, pos |-> p] :
        d \in {"a", "b", "bad"},
        e \in {<<>>, Texts(ty).a2, Texts(ty).b, Texts(ty).bad},
        fl \in Files(ty), ar \in Args(ty), p \in 1..NumFields}

RefusedScenarios(ty) ==
    {[type |-> ty, kind |-> k, default |-> Texts(ty).a, env |-> e, file |-> fl,
      args |-> ar, pos |-> p] :
        k \in RefusedKinds,
        e \in {<<>>, Texts(ty).b},
        fl \in FewFiles(ty), ar \in FewArgs(ty), p \in 1..NumFields}

Scenarios == UNION {OkScenarios(ty) \cup RefusedScenarios(ty) : ty \in GoTypes}

\* the zero value of a Go type
ZeroOf(type) ==
    CASE type = "bool" -> FALSE
      [] type = "float64" -> FloatZero
      [] type = "string" -> <<>>
      [] type = "time.Time" -> ZeroTime
      [] OTHER -> 0

NoResult == [done |-> FALSE, key |-> <<>>, value |-> <<>>, err |-> NoError]

\* a process about to call Behold on a zero config struct
Setup(sc) ==
    /\ fields = [i \in 1..NumFields |->
                    IF i = sc.pos THEN Focus(sc.type, sc.kind, sc.default) ELSE Filler(i)]
    /\ osEnv = (EnvV :> sc.env) @@ (EnvW :> <<"w">>)
    /\ dotEnv = sc.file
    /\ osArgs = sc.args
    /\ calls = 0
    /\ index = 1
    /\ envFile = EmptyMap
    /\ panicMsg = NoError
    /\ containers = <<>>
    /\ newErrs = <<>>
    /\ config = [i \in 1..NumFields |->
                    IF i = sc.pos THEN ZeroOf(sc.type) ELSE ZeroOf("string")]
    /\ flagSet = [parsed |-> FALSE, formal |-> EmptyMap]
    /\ panicAt = 0

Init ==
    /\ \E sc \in Scenarios : Setup(sc)
    /\ pc = "idle"
    /\ line = <<>>
    /\ lineResult = NoResult

Next == BeholdEnter \/ BeholdNew \/ BeholdParse \/ BeholdResolve

Spec == Init /\ [][Next]_vars

(***************************************************************************)
(* A stand-alone run of parseLine on one line: "K=" and any text of up to  *)
(* MaxBody characters.                                                     *)
(***************************************************************************)

BodyChars == {"v", " ", "#", "'", "\""}

Bodies == UNION {[1..n -> BodyChars] : n \in 0..MaxBody}

Lines == {<<"K", "=">> \o body : body \in Bodies}

ParseLine ==
    /\ ~lineResult.done
    /\ lineResult' = [done |-> TRUE, key |-> parseLine(line).key,
                      value |-> parseLine(line).value, err |-> parseLine(line).err]
    /\ UNCHANGED <<beholdVars, line>>

InitEnv ==
    /\ Setup([type |-> "string", kind |-> "ok", default |-> <<"d">>, env |-> <<>>,
              file |-> NoFile, args |-> <<>>, pos |-> 1])
    /\ pc = "off"
    /\ line \in Lines
    /\ lineResult = NoResult

NextEnv == ParseLine

SpecEnv == InitEnv /\ [][NextEnv]_vars

(***************************************************************************)
(* A stand-alone run of parseLine on a line whose value holds quotes and   *)
(* backslash escapes: "K=" and any text of up to MaxValue such characters. *)
(***************************************************************************)

ValueChars == {"\\", "n", "r", "$", "\"", "'", " "}

Values == UNION {[1..n -> ValueChars] : n \in 0..MaxValue}

InitValue ==
    /\ Setup([type |-> "string", kind |-> "ok", default |-> <<"d">>, env |-> <<>>,
              file |-> NoFile, args |-> <<>>, pos |-> 1])
    /\ pc = "off"
    /\ line \in {<<"K", "=">> \o body : body \in Values}
    /\ lineResult = NoResult

NextValue == ParseLine

SpecValue == InitValue /\ [][NextValue]_vars

(***************************************************************************)
(* A stand-alone run of parseLine on a line "export K=V": K is made of up  *)
(* to MaxKeyParts parts and V is one of a few value texts.                 *)
(***************************************************************************)

KeyParts == {<<"A">>, <<"_">>, <<" ">>, Export}

RECURSIVE Flatten(_)
Flatten(parts) == IF parts = <<>> THEN <<>> ELSE Head(parts) \o Flatten(Tail(parts))

Keys == {Flatten(parts) : parts \in UNION {[1..n -> KeyParts] : n \in 0..MaxKeyParts}}

ValueTexts == {<<>>, <<"v">>, <<" ", "v", " ">>, <<"'", "v", "'">>, <<"v", " ", "#", "c">>}

ExportPrefix == Export \o <<" ">>

InitExport ==
    /\ Setup([type |-> "string", kind |-> "ok", default |-> <<"d">>, env |-> <<>>,
              file |-> NoFile, args |-> <<>>, pos |-> 1])
    /\ pc = "off"
    /\ line \in {ExportPrefix \o k \o <<"=">> \o v : k \in Keys, v \in ValueTexts}
    /\ lineResult = NoResult

NextExport == ParseLine

SpecExport == InitExport /\ [][NextExport]_vars

(***************************************************************************)
(* The vocabulary of the claims: what the inputs supply for field i.       *)
(***************************************************************************)

\* the types Behold's resolution loop handles, and the types the library
\* documents as supported
ResolvedTypes == {"bool", "int", "float64", "string"}
SupportedTypes == ResolvedTypes \cup {"time.Time"}

\* a text read as a value of a field type
TextAs(type, text) ==
    CASE type = "bool" -> ParseBool(text)
      [] type = "int" -> Atoi(text)
      [] type = "float64" -> ParseFloat(text)
      [] type = "string" -> [ok |-> TRUE, v |-> text]
      [] type = "time.Time" -> [ok |-> isTime(text), v |-> parseTime(text)]
      [] OTHER -> [ok |-> FALSE, v |-> 0]

\* the text of a flag read as a value of the field's type
FlagTextAs(type, text) ==
    IF type \in {"bool", "int", "float64"} THEN flagSetValue(type, text)
    ELSE TextAs(type, text)

\* Go's != on two values of a field type
Differs(type, a, b) == IF type = "float64" THEN FloatNeq(a, b) ELSE a # b

\* the default tag read as the field's type, the zero value when it does not
\* parse
DefaultOf(i) ==
    IF TextAs(fields[i].type, fields[i].default).ok
    THEN TextAs(fields[i].type, fields[i].default).v
    ELSE ZeroOf(fields[i].type)

\* New accepts field i
Constructed(i) == fields[i].canSet /\ fields[i].hasFlag

\* the environment variable of field i is set (to a non-empty text)
HasEnv(i) == Getenv(fields[i].env) # <<>>
EnvOf(i) == TextAs(fields[i].type, Getenv(fields[i].env))

\* the loaded .env mapping has an entry for the variable of field i
HasEntry(i) == fields[i].env \in DOMAIN envFile
EntryOf(i) == TextAs(fields[i].type, envFile[fields[i].env])

\* the command line gives the flag of field i (flag.Parse reads the arguments
\* up to the first that is not a flag, and a later occurrence wins)
ArgsOf(i) ==
    {k \in 1..Len(osArgs) :
        /\ \A j \in 1..k : osArgs[j].isFlag
        /\ osArgs[k].name = fields[i].flag}
HasArg(i) == ArgsOf(i) # {}
ArgText(i) == osArgs[CHOOSE k \in ArgsOf(i) : \A j \in ArgsOf(i) : j <= k].value
ArgOf(i) == FlagTextAs(fields[i].type, ArgText(i))

\* the first Behold call of the process has returned
FirstReturned == pc = "returned" /\ calls = 1

(***************************************************************************)
(* The claims.                                                             *)
(***************************************************************************)

\* C1: after Behold, a bool, int, float64 or string field with a flag tag and
\* a parseable default D holds the flag's value G when the environment, the
\* .env file and the command line all give a parseable value and G differs
\* from D; the .env entry F when only the flag is missing; the environment
\* value E when the flag and the entry are missing; D when all are missing.
C1_Precedence ==
    \A i \in 1..NumFields :
        (/\ FirstReturned
         /\ fields[i].type \in ResolvedTypes
         /\ Constructed(i)
         /\ TextAs(fields[i].type, fields[i].default).ok)
        =>
        /\ (/\ HasEnv(i) /\ EnvOf(i).ok /\ HasEntry(i) /\ EntryOf(i).ok
            /\ HasArg(i) /\ ArgOf(i).ok /\ ArgOf(i).v # DefaultOf(i))
           => config[i] = ArgOf(i).v
        /\ (/\ HasEnv(i) /\ EnvOf(i).ok /\ HasEntry(i) /\ EntryOf(i).ok /\ ~HasArg(i))
           => config[i] = EntryOf(i).v
        /\ (/\ HasEnv(i) /\ EnvOf(i).ok /\ ~HasEntry(i) /\ ~HasArg(i))
           => config[i] = EnvOf(i).v
        /\ (~HasEnv(i) /\ ~HasEntry(i) /\ ~HasArg(i))
           => config[i] = DefaultOf(i)

\* the value the flag of field i has after flag.Parse: the one the command line
\* gives, or the parsed default it was registered with
FlagValue(i) == IF HasArg(i) THEN ArgOf(i).v ELSE DefaultOf(i)

\* what Behold leaves in a constructed field i, from the inputs alone: the
\* flag's value when this call registered the flag and the value compares
\* unequal (Go's !=) to the parsed default; else the .env entry when there is
\* one that parses; else the environment value when it is not empty and
\* parses; else the parsed default. A timestamp field is left at its parsed
\* default and a field of any other type is left as it was.
FlagCounts(i) ==
    calls = 1 /\ Differs(fields[i].type, FlagValue(i), DefaultOf(i))

Expected(i) ==
    IF fields[i].type \in ResolvedTypes
    THEN IF FlagCounts(i) THEN FlagValue(i)
         ELSE IF HasEntry(i) /\ EntryOf(i).ok THEN EntryOf(i).v
         ELSE IF HasEnv(i) /\ EnvOf(i).ok THEN EnvOf(i).v
         ELSE DefaultOf(i)
    ELSE IF fields[i].type = "time.Time" THEN DefaultOf(i)
    ELSE ZeroOf(fields[i].type)

\* C2 as stated: after Behold returns, a constructed field of a supported type
\* holds the value of the highest-precedence source that supplied one (the
\* flag whenever it is passed, even with the default's value; else the .env
\* entry; else the environment variable), and the parsed default when no
\* source supplied one.
C2_HighestSourceWins ==
    \A i \in 1..NumFields :
        (pc = "returned" /\ Constructed(i) /\ fields[i].type \in SupportedTypes)
        => config[i] = IF HasArg(i) THEN ArgOf(i).v
                       ELSE IF HasEntry(i) /\ EntryOf(i).ok THEN EntryOf(i).v
                       ELSE IF HasEnv(i) /\ EnvOf(i).ok THEN EnvOf(i).v
                       ELSE DefaultOf(i)

\* C2, amended: after Behold returns, every constructed field holds the value
\* Expected gives: a flag counts as a source only when its value compares
\* unequal to the parsed default (and the call registered it), so a flag passed
\* with the default's value leaves the field to the .env entry, the
\* environment variable or the default.
C2_FieldHoldsExpected ==
    \A i \in 1..NumFields :
        (pc = "returned" /\ Constructed(i)) => config[i] = Expected(i)

\* C2's case: a flag passed with the default's value, an environment variable
\* with another value, and the field holds the environment's value
C2_Witness ==
    \E i \in 1..NumFields :
        /\ FirstReturned /\ Constructed(i) /\ fields[i].type \in ResolvedTypes
        /\ HasArg(i) /\ ArgOf(i).v = DefaultOf(i)
        /\ ~HasEntry(i)
        /\ HasEnv(i) /\ EnvOf(i).ok /\ EnvOf(i).v # DefaultOf(i)
        /\ config[i] = EnvOf(i).v

\* the flags are parsed and the containers are all made
AfterParse == pc \in {"resolve", "returned"}

\* the accessors of a container's own type
FlagOf(c) ==
    IF IsBool(c) THEN FlagBool(c)
    ELSE IF IsFloat(c) THEN FlagFloat(c)
    ELSE IF IsInt(c) THEN FlagInt(c)
    ELSE IF IsString(c) THEN FlagString(c)
    ELSE FlagTime(c)

EnvOfContainer(c) ==
    IF IsBool(c) THEN EnvBool(c)
    ELSE IF IsFloat(c) THEN EnvFloat(c)
    ELSE IF IsInt(c) THEN EnvInt(c)
    ELSE IF IsString(c) THEN EnvString(c)
    ELSE EnvTime(c)

EnvFileOfContainer(c) ==
    IF IsBool(c) THEN EnvFileBool(c)
    ELSE IF IsFloat(c) THEN EnvFileFloat(c)
    ELSE IF IsInt(c) THEN EnvFileInt(c)
    ELSE IF IsString(c) THEN EnvFileString(c)
    ELSE EnvFileTime(c)

\* the text the flag of field i holds after flag.Parse
FlagText(i) == IF HasArg(i) THEN ArgText(i) ELSE fields[i].default

\* C3 as stated: for a field of every supported type whose flag is registered,
\* the flag accessor reports found, with the flag's value, exactly when the
\* flag's parsed value differs from the parsed default.
C3_FoundIffParsedDiffers ==
    \A i \in 1..NumFields :
        (/\ AfterParse /\ calls = 1 /\ Constructed(i)
         /\ fields[i].type \in SupportedTypes)
        =>
        /\ FlagOf(containers[i]).ok
               <=> Differs(fields[i].type, FlagValue(i), DefaultOf(i))
        /\ FlagOf(containers[i]).ok => FlagOf(containers[i]).v = FlagValue(i)

\* C3, amended: the flag accessor of a bool, int, float64 or string field
\* reports found, with the flag's value, exactly when the flag's parsed value
\* compares unequal to the parsed default; FlagTime reports found, with the
\* parse of the flag's text, exactly when that text differs from the default
\* tag's text, so a timestamp passed in another layout than the default's is
\* found although it parses to the default; and every flag accessor reports
\* not-found on a container that registered no flag because the flags were
\* already parsed when it was made.
C3_FoundIffDiffers ==
    \A i \in 1..NumFields :
        (AfterParse /\ Constructed(i) /\ fields[i].type \in SupportedTypes)
        =>
        IF calls > 1 THEN ~FlagOf(containers[i]).ok
        ELSE IF fields[i].type = "time.Time"
        THEN /\ FlagOf(containers[i]).ok <=> FlagText(i) # fields[i].default
             /\ FlagOf(containers[i]).ok
                    => FlagOf(containers[i]).v = parseTime(FlagText(i))
        ELSE /\ FlagOf(containers[i]).ok
                    <=> Differs(fields[i].type, FlagValue(i), DefaultOf(i))
             /\ FlagOf(containers[i]).ok => FlagOf(containers[i]).v = FlagValue(i)

\* C3's case: a timestamp flag passed in another layout than the default's,
\* parsing to the default, and FlagTime reports it found
C3_Witness ==
    \E i \in 1..NumFields :
        /\ AfterParse /\ calls = 1 /\ Constructed(i)
        /\ fields[i].type = "time.Time"
        /\ HasArg(i) /\ ArgText(i) # fields[i].default
        /\ isTime(fields[i].default) /\ ArgOf(i).v = DefaultOf(i)
        /\ FlagTime(containers[i]).ok
        /\ FlagTime(containers[i]).v = DefaultOf(i)

\* C4: for a bool, int, float64 or timestamp field, an environment value or
\* .env entry that is present and does not parse as the field's type is
\* treated as absent: the accessor reports not-found, and after Behold the
\* field holds what the remaining sources give.
C4_UnparseableIsAbsent ==
    \A i \in 1..NumFields :
        (/\ AfterParse /\ Constructed(i)
         /\ fields[i].type \in {"bool", "int", "float64", "time.Time"})
        =>
        /\ (HasEnv(i) /\ ~EnvOf(i).ok) => ~EnvOfContainer(containers[i]).ok
        /\ (HasEntry(i) /\ ~EntryOf(i).ok) => ~EnvFileOfContainer(containers[i]).ok
        /\ (/\ pc = "returned"
            /\ (HasEnv(i) /\ ~EnvOf(i).ok) \/ (HasEntry(i) /\ ~EntryOf(i).ok))
           => config[i] = Expected(i)

\* C5: New returns ErrCantSet for a field that cannot be written, with or
\* without a flag tag; ErrNoFlagName for a writable field without a flag tag;
\* no error otherwise.
C5_NewErrors ==
    \A i \in 1..Len(newErrs) :
        newErrs[i] = IF ~fields[i].canSet THEN ErrCantSet
                     ELSE IF ~fields[i].hasFlag THEN ErrNoFlagName
                     ELSE NoError

\* C5's case: New has refused an unwritable field without a flag tag, with
\* ErrCantSet
C5_Witness ==
    \E i \in 1..Len(newErrs) :
        ~fields[i].canSet /\ ~fields[i].hasFlag /\ newErrs[i] = ErrCantSet

\* the .env file is there and cannot be opened, or holds a line that does not
\* parse
BadFile == dotEnv.exists /\ ReadFile(dotEnv).err # NoError

\* C6: a structural failure aborts Behold: with a .env file that cannot be read
\* or parsed Behold panics before any container is made, and once New has
\* refused a field (unwritable, or without a flag tag) Behold does not go on to
\* resolve fields or to return.
C6_FailureAborts ==
    /\ (BadFile /\ pc # "idle") => (pc = "panic" /\ containers = <<>>)
    /\ (\E i \in 1..Len(containers) : ~Constructed(i))
       => pc \notin {"resolve", "returned"}

\* C7: Behold's resolution loop makes and attempts no write to a field whose
\* storage is unwritable: the field keeps its zero value and no write through
\* its container panics.
C7_NoWriteToUnwritable ==
    \A i \in 1..NumFields :
        ~fields[i].canSet
        => /\ config[i] = ZeroOf(fields[i].type)
           /\ ~(pc = "panic" /\ panicMsg = PanicZeroValue /\ panicAt = i)

\* C8: from a successful New of a supported-type field until the resolution
\* loop reaches the field, the field holds the parse of its default tag, or
\* the zero value of its type when the tag does not parse, and New returned no
\* error.
C8_DefaultAfterNew ==
    \A i \in 1..Len(containers) :
        (/\ pc \in {"new", "parse"} \/ (pc = "resolve" /\ index <= i)
         /\ Constructed(i)
         /\ fields[i].type \in SupportedTypes)
        => /\ config[i] = DefaultOf(i)
           /\ newErrs[i] = NoError

\* C8's case: New has accepted a bool, int, float64 or timestamp field whose
\* default tag does not parse, and the field holds the zero value
C8_Witness ==
    \E i \in 1..Len(containers) :
        /\ pc = "parse" /\ Constructed(i)
        /\ fields[i].type \in {"bool", "int", "float64", "time.Time"}
        /\ ~TextAs(fields[i].type, fields[i].default).ok
        /\ config[i] = ZeroOf(fields[i].type)
        /\ newErrs[i] = NoError

\* C9: with no .env file the env-file mapping is empty, Behold raises no error
\* of the file and its first call does not panic, every EnvFile accessor
\* reports not-found, and a field Behold resolves holds the flag's value, else
\* the environment's, else the default.
C9_MissingFileIsNoError ==
    ~dotEnv.exists
    => /\ envFile = EmptyMap
       /\ panicMsg \notin {PanicOpen, ErrSeparate, ErrZeroLength}
       /\ calls = 1 => pc # "panic"
       /\ \A i \in 1..Len(containers) :
              /\ ~EnvFileBool(containers[i]).ok
              /\ ~EnvFileFloat(containers[i]).ok
              /\ ~EnvFileInt(containers[i]).ok
              /\ ~EnvFileString(containers[i]).ok
              /\ ~EnvFileTime(containers[i]).ok
       /\ \A i \in 1..NumFields :
              (pc = "returned" /\ Constructed(i) /\ fields[i].type \in ResolvedTypes)
              => config[i] = IF FlagCounts(i) THEN FlagValue(i)
                             ELSE IF HasEnv(i) /\ EnvOf(i).ok THEN EnvOf(i).v
                             ELSE DefaultOf(i)

\* C9's case: Behold has returned with no .env file and a field holds the
\* value of its environment variable
C9_Witness ==
    /\ ~dotEnv.exists
    /\ FirstReturned
    /\ \E i \in 1..NumFields :
           /\ Constructed(i) /\ fields[i].type \in ResolvedTypes
           /\ ~HasArg(i)
           /\ HasEnv(i) /\ EnvOf(i).ok /\ EnvOf(i).v # DefaultOf(i)
           /\ config[i] = EnvOf(i).v

\* the text after "K=" in the line handed to parseLine
Body == SubSeq(line, 3, Len(line))

QuoteChars == {"'", "\""}

\* C10: a '#' outside a quoted value starts a comment, whatever the comment
\* holds: a line K=V#C, with no quote and no '#' in V, parses to V without the
\* spaces around it; and a '#' inside a double-quoted value is kept: a line
\* K="X", with a '#' and no quote in X, parses to X.
C10_CommentStripped ==
    lineResult.done
    => /\ \A k \in 1..Len(Body) :
              (/\ Body[k] = "#"
               /\ \A j \in 1..(k - 1) : Body[j] \notin QuoteChars \cup {"#"})
              => /\ lineResult.err = NoError
                 /\ lineResult.value = Trim(SubSeq(Body, 1, k - 1), " ")
       /\ (/\ Len(Body) >= 3
           /\ Body[1] = "\"" /\ Body[Len(Body)] = "\""
           /\ \E j \in 2..(Len(Body) - 1) : Body[j] = "#"
           /\ \A j \in 2..(Len(Body) - 1) : Body[j] \notin QuoteChars)
          => /\ lineResult.err = NoError
             /\ lineResult.value = SubSeq(Body, 2, Len(Body) - 1)

\* a text with its escapes read from left to right: \n is a newline, \r a
\* carriage return, \$ stays, any other backslash and character is the
\* character, and a backslash at the end stays
RECURSIVE Unescaped(_)
Unescaped(s) ==
    IF Len(s) < 2 \/ Head(s) # "\\" THEN
        IF s = <<>> THEN <<>> ELSE <<Head(s)>> \o Unescaped(Tail(s))
    ELSE (CASE s[2] = "n" -> <<"\n">>
            [] s[2] = "r" -> <<"\r">>
            [] s[2] = "$" -> <<"\\", "$">>
            [] OTHER -> <<s[2]>>) \o Unescaped(SubSeq(s, 3, Len(s)))

\* the value text of the line, without the spaces around it
Trimmed == Trim(Body, " ")

Wrapped(q) == Len(Trimmed) >= 2 /\ Trimmed[1] = q /\ Trimmed[Len(Trimmed)] = q

Inner == SubSeq(Trimmed, 2, Len(Trimmed) - 1)

\* C11: a value wrapped in double quotes parses to its inside with the escapes
\* processed; a value wrapped in single quotes parses to its inside as it is;
\* any other value parses to itself without the spaces around it.
C11_QuotesAndEscapes ==
    lineResult.done
    => /\ lineResult.err = NoError
       /\ lineResult.value = IF Wrapped("\"") THEN Unescaped(Inner)
                             ELSE IF Wrapped("'") THEN Inner
                             ELSE Trimmed

\* C11's case: the double-quoted value "\n'" has been parsed, to a newline and
\* the single quote
C11_Witness ==
    /\ lineResult.done
    /\ Wrapped("\"")
    /\ Inner = <<"\\", "n", "'">>
    /\ lineResult.value = <<"\n", "'">>

\* the line without the "export " it starts with
Unexported == SubSeq(line, Len(ExportPrefix) + 1, Len(line))

\* C12: the line "export K=V" parses to the key, value and error the line
\* "K=V" parses to.
C12_ExportIsIgnored ==
    lineResult.done
    => /\ lineResult.key = parseLine(Unexported).key
       /\ lineResult.value = parseLine(Unexported).value
       /\ lineResult.err = parseLine(Unexported).err

\* the lines of the .env file that are not ignored and hold no '='
NoSeparator == {k \in 1..Len(dotEnv.lines) :
                   /\ ~isIgnoredLine(dotEnv.lines[k])
                   /\ ~Contains(dotEnv.lines[k], "=")}

FirstNoSeparator == CHOOSE k \in NoSeparator : \A j \in NoSeparator : k <= j

\* C13: when a readable .env file has a non-ignored line without '=', the
\* parse fails with the separator error at the first such line: Behold panics
\* with it before any container is made, and the mapping holds the keys of
\* the lines before that line only.
C13_FirstMalformedLineAborts ==
    (dotEnv.exists /\ dotEnv.readable /\ NoSeparator # {} /\ pc # "idle")
    => /\ pc = "panic"
       /\ panicMsg = ErrSeparate
       /\ containers = <<>>
       /\ DOMAIN envFile =
              {parseLine(dotEnv.lines[j]).key :
                  j \in {j \in 1..(FirstNoSeparator - 1) :
                            ~isIgnoredLine(dotEnv.lines[j])}}

\* C13's case: the parse has failed at a line without '=' that stands between
\* two well-formed lines, and only the first of them is in the mapping
C13_Witness ==
    /\ pc = "panic" /\ panicMsg = ErrSeparate
    /\ Len(dotEnv.lines) = 3
    /\ NoSeparator = {2}
    /\ DOMAIN envFile = {parseLine(dotEnv.lines[1]).key}
    /\ parseLine(dotEnv.lines[3]).err = NoError
    /\ parseLine(dotEnv.lines[3]).key \notin DOMAIN envFile

\* C14: after Behold, a timestamp field with a parseable default holds the
\* default's instant when nothing overrides it, and the instant of the
\* highest source (flag, then .env entry, then environment variable) that
\* gives a timestamp in a recognized layout.
C14_TimeIsResolved ==
    \A i \in 1..NumFields :
        (/\ FirstReturned /\ Constructed(i)
         /\ fields[i].type = "time.Time"
         /\ isTime(fields[i].default))
        =>
        /\ (~HasEnv(i) /\ ~HasEntry(i) /\ ~HasArg(i)) => config[i] = DefaultOf(i)
        /\ (HasEnv(i) /\ EnvOf(i).ok /\ ~HasEntry(i) /\ ~HasArg(i))
           => config[i] = EnvOf(i).v
        /\ (HasEntry(i) /\ EntryOf(i).ok /\ ~HasArg(i)) => config[i] = EntryOf(i).v
        /\ (HasArg(i) /\ isTime(ArgText(i)) /\ ArgOf(i).v # DefaultOf(i))
           => config[i] = ArgOf(i).v

\* the flag pointer of a container's own type
FlagPtr(c) ==
    IF IsBool(c) THEN c.boolValue
    ELSE IF IsFloat(c) THEN c.floatValue
    ELSE IF IsInt(c) THEN c.intValue
    ELSE IF IsString(c) THEN c.stringValue
    ELSE IF IsTime(c) THEN c.timeValue
    ELSE NilPtr

\* the value a flag of the field's type is registered with
RegisteredDefault(i) ==
    IF fields[i].type = "time.Time" THEN fields[i].default ELSE DefaultOf(i)

TruePredicates(c) ==
    Cardinality({k \in 1..5 :
        <<IsBool(c), IsInt(c), IsFloat(c), IsString(c), IsTime(c)>>[k]})

\* C16 as stated: of every container made, for a field of any type, exactly
\* one type predicate is true.
C16_ExactlyOnePredicate ==
    \A i \in 1..Len(containers) : TruePredicates(containers[i]) = 1

\* C16, amended: of every container made at most one type predicate is true:
\* the one of the field's type when the type is bool, int, float64, string or
\* time.Time, and none when the field is of any other type.
C16_OnePredicateIfSupported ==
    \A i \in 1..Len(containers) :
        /\ TruePredicates(containers[i]) = IF fields[i].type \in SupportedTypes THEN 1 ELSE 0
        /\ IsBool(containers[i]) <=> fields[i].type = "bool"
        /\ IsInt(containers[i]) <=> fields[i].type = "int"
        /\ IsFloat(containers[i]) <=> fields[i].type = "float64"
        /\ IsString(containers[i]) <=> fields[i].type = "string"
        /\ IsTime(containers[i]) <=> fields[i].type = "time.Time"

\* C16's case: New has accepted a field of another type (int64) and none of
\* the predicates is true of its container
C16_Witness ==
    \E i \in 1..Len(containers) :
        /\ fields[i].type \notin SupportedTypes
        /\ Constructed(i) /\ newErrs[i] = NoError
        /\ TruePredicates(containers[i]) = 0

\* C17: every key of the mapping a successful parse of the .env file returns
\* is a non-empty string without white space at its ends.
C17_KeysNonEmptyTrimmed ==
    (dotEnv.exists /\ pc # "idle" /\ panicMsg \notin {PanicOpen, ErrSeparate, ErrZeroLength})
    => \A k \in DOMAIN envFile :
           /\ k # <<>>
           /\ ~IsSpace(k[1])
           /\ ~IsSpace(k[Len(k)])

\* the .env mapping and the environment give the variable of field i the same
\* text
SameText(i) == HasEntry(i) /\ envFile[fields[i].env] = Getenv(fields[i].env)

\* C18 as stated: for a field of every supported type and every text, the
\* empty one included, the env-file accessor on a mapping that gives the
\* variable that text returns the pair the environment accessor returns when
\* the variable is set to the text.
C18_SameAccessors ==
    \A i \in 1..Len(containers) :
        (Constructed(i) /\ fields[i].type \in SupportedTypes /\ SameText(i))
        => EnvFileOfContainer(containers[i]) = EnvOfContainer(containers[i])

\* C18, amended: for every non-empty text the two accessors return the same
\* pair. For the empty text every environment accessor reports not-found,
\* and so do EnvFileBool, EnvFileInt and EnvFileFloat, while EnvFileString
\* reports the empty string found and EnvFileTime the zero timestamp found.
C18_SameUnlessEmpty ==
    \A i \in 1..Len(containers) :
        (Constructed(i) /\ fields[i].type \in SupportedTypes /\ SameText(i))
        => IF Getenv(fields[i].env) # <<>>
           THEN EnvFileOfContainer(containers[i]) = EnvOfContainer(containers[i])
           ELSE /\ ~EnvOfContainer(containers[i]).ok
                /\ EnvFileOfContainer(containers[i]).ok
                       <=> fields[i].type \in {"string", "time.Time"}
                /\ EnvFileOfContainer(containers[i]).v = ZeroOf(fields[i].type)

\* C18's case: the variable of a string field is empty in the environment and
\* in the .env mapping; EnvFileString reports it found, EnvString does not
C18_Witness ==
    \E i \in 1..Len(containers) :
        /\ Constructed(i) /\ fields[i].type = "string"
        /\ SameText(i) /\ Getenv(fields[i].env) = <<>>
        /\ EnvFileString(containers[i]) = [v |-> <<>>, ok |-> TRUE]
        /\ EnvString(containers[i]) = [v |-> <<>>, ok |-> FALSE]

\* what the first Behold call of a process leaves in a constructed field i
FirstResolved(i) ==
    IF fields[i].type \in ResolvedTypes
          /\ Differs(fields[i].type, FlagValue(i), DefaultOf(i))
    THEN FlagValue(i)
    ELSE IF fields[i].type \in ResolvedTypes /\ HasEntry(i) /\ EntryOf(i).ok
    THEN EntryOf(i).v
    ELSE IF fields[i].type \in ResolvedTypes /\ HasEnv(i) /\ EnvOf(i).ok
    THEN EnvOf(i).v
    ELSE IF fields[i].type \in SupportedTypes THEN DefaultOf(i)
    ELSE ZeroOf(fields[i].type)

\* C19: a second Behold call in the same process, on the same inputs, does
\* not panic and leaves in every constructed field the value the first call
\* left there.
C19_Repeatable ==
    /\ \A i \in 1..NumFields :
           (FirstReturned /\ Constructed(i)) => config[i] = FirstResolved(i)
    /\ calls = 2 => pc # "panic"
    /\ \A i \in 1..NumFields :
           (calls = 2 /\ pc = "returned" /\ Constructed(i))
           => config[i] = FirstResolved(i)

====
